---- MODULE Spec2Model ----
(***************************************************************************)
(* Helios solar system: the scene engine of components/SolarSystem.tsx     *)
(* (src/unnamed/part_000, which also holds the PLANETS catalog) and the    *)
(* selection state of src/App.tsx.                                         *)
(*                                                                         *)
(* Numbers.  World coordinates, radii and vectors are fixed-point integers *)
(* in hundredths of a world unit (200 -> 20000).  Tweened scalars (scale,  *)
(* opacity, emissive intensity) are in thousandths (1.2 -> 1200).  GSAP    *)
(* time is counted in ticks of 0.1 s, the largest step that divides every  *)
(* duration of the program (0.5, 0.6, 0.8, 1.5 and 2 s).                   *)
(*                                                                         *)
(* The frame callback `animate` is modelled section by section             *)
(* (hover, labels, comet); the sections read and write disjoint state, so  *)
(* each specification below steps the sections whose state it is about.    *)
(***************************************************************************)
EXTENDS Integers, Sequences, FiniteSets, TLC

VARIABLES
    selectedPlanet,      \* App.tsx useState: id of the selected planet, or None
    showIntro,           \* App.tsx useState
    effectDeps,          \* selectedPlanetId the selection effect last ran with
    effectRuns,          \* number of passes of the selection effect so far
    reselected,          \* history: the last step was a pointer-down that
                         \* selected the planet already selected
    clicked,             \* history: hoveredPlanetIdRef.current as the last step
                         \* read it, if that step was a pointer-down
    hoveredPlanetId,     \* hoveredPlanetIdRef.current
    labelOpacity,        \* labelRefs.current[id].style.opacity
    front,               \* history: pos.project(camera).z < 1 of every planet
                         \* in the last frame
    angle,               \* planetsRef.current[i].angle
    position,            \* planetsRef.current[i].mesh.position
    rotation,            \* planetsRef.current[i].mesh.rotation.y
    moon,                \* moonRef.current: angle, and mesh.position
    frames,              \* history: number of calls of animate so far
    angle0,              \* history: the angle every planet was constructed with
    seen,                \* history: the planet positions the hover and label
                         \* sections of the last frame read
    rayHits,             \* history: the intersections of the pointer ray that
                         \* the last frame's ray cast found
    mountRef,            \* mountRef.current is set (the container exists)
    refs,                \* the refs the mount effect has set
    listeners,           \* the event listeners registered
    animationFrameRef,   \* a call of animate is scheduled
    clientSize,          \* mountRef.current.clientWidth and clientHeight
    aspect,              \* cameraRef.current.aspect, as of the last
                         \* updateProjectionMatrix()
    rendererSize,        \* the output size of rendererRef.current
    scene,               \* tweened properties: scale, emissive, opacity, camera
    orbitColor,          \* orbitLine.material.color of every orbit path
    tweens,              \* GSAP global timeline: live tweens in render order
    rendered,            \* history: the tweens the last GSAP tick rendered,
                         \* emptied by a pass of the selection effect
    resets,              \* number of Reset View clicks so far
    cameraGoal,          \* history: the end values of the camera animation
                         \* started last; before the first, where the
                         \* construction has put the camera and the target
    comet,               \* cometRef.current: active, visible, position, velocity
    tailPos,             \* comet.tail.geometry.attributes.position.array
    tailPositions        \* cometRef.current.tailPositions

appVars == << selectedPlanet, showIntro, effectDeps, effectRuns >>

frameVars == << hoveredPlanetId, labelOpacity, front >>

orbitVars == << angle, position, rotation, moon >>

loopVars == << frames, angle0, seen, rayHits >>

mountVars == << mountRef, refs, listeners, animationFrameRef >>

viewVars == << clientSize, aspect, rendererSize >>

gsapVars == << scene, orbitColor, tweens, rendered, resets, cameraGoal >>

cometVars == << comet, tailPos, tailPositions >>

vars == << appVars, reselected, clicked, frameVars, orbitVars, loopVars, mountVars, viewVars,
          gsapVars, cometVars >>

None == "none"

\* a pointer-down that read no hover target
Empty == "empty"

----------------------------------------------------------------------------
(* Comet                                                                   *)

tailCount == 100

cometBound == 25000

tailInitX == 999900

RECURSIVE ISqrtIter(_, _, _)
ISqrtIter(n, lo, hi) ==
    IF lo >= hi THEN lo
    ELSE LET mid == (lo + hi + 1) \div 2
         IN  IF mid * mid <= n THEN ISqrtIter(n, mid, hi)
             ELSE ISqrtIter(n, lo, mid - 1)

\* floor of the square root
ISqrt(n) == ISqrtIter(n, 0, 46340)

\* truncating division, as a float product rounded toward zero
DivT(a, b) == IF a >= 0 THEN a \div b ELSE -((-a) \div b)

LengthSq(v) == v[1] * v[1] + v[2] * v[2] + v[3] * v[3]

\* Vector3.length() > bound
LongerThan(v, bound) == LengthSq(v) > bound * bound

VecAdd(a, b) == << a[1] + b[1], a[2] + b[2], a[3] + b[3] >>

VecSub(a, b) == << a[1] - b[1], a[2] - b[2], a[3] - b[3] >>

\* normalize(target - start) * speed; speed in hundredths per frame
CometVelocity(start, target, speed) ==
    LET d == VecSub(target, start)
        len == ISqrt(LengthSq(d))
    IN  << DivT(d[1] * speed, len), DivT(d[2] * speed, len), DivT(d[3] * speed, len) >>

\* Math.random() draws of one spawn: the start on the circle of radius 200
\* (cos, sin of the random angle, exact on these points), the start height in
\* [-25, 25), the target in [-20, 20)^2 and the speed in [0.8, 1.3).
SpawnDraws ==
    { [start |-> << 20000, -2500, 0 >>,      target |-> << 0, 0, 0 >>,         speed |-> 80],
      [start |-> << 12000, 2499, 16000 >>,   target |-> << 1999, 0, -2000 >>,  speed |-> 129],
      [start |-> << -16000, 0, -12000 >>,    target |-> << -2000, 0, 1999 >>,  speed |-> 100],
      [start |-> << 0, 1200, -20000 >>,      target |-> << 1500, 0, 1500 >>,   speed |-> 125] }

\* for (i = 0; i < tailPositions.length; i++) tailPositions[i] = position.toArray()[i % 3]
FillTail(buf, pos) == [i \in 1..Len(buf) |-> pos[((i - 1) % 3) + 1]]

\* the shift loop run upwards: every slot ends with the head of the old buffer
TrailShiftAscending(positions, head) ==
    [i \in 1..Len(positions) |-> IF i <= 3 THEN head[i] ELSE positions[((i - 1) % 3) + 1]]

\* for (i = length - 1; i >= 3; i--) positions[i] = positions[i - 3];
\* positions[0..2] = head: running downwards, every slot reads a value not yet
\* overwritten, so slot i ends with the old slot i - 3.
TrailShift(positions, head) ==
    [i \in 1..Len(positions) |-> IF i <= 3 THEN head[i] ELSE positions[i - 3]]

\* comet.mesh.position.add(comet.velocity) with the velocity dropped
CometAdvanceStuck(pos, vel) == pos

\* comet.mesh.position.add(comet.velocity)
CometAdvance(pos, vel) == VecAdd(pos, vel)

\* if (!comet.active && Math.random() < 0.002) { ... }
CometSpawn(c, draw) ==
    [active |-> TRUE, meshVisible |-> TRUE, tailVisible |-> TRUE,
     position |-> draw.start,
     velocity |-> CometVelocity(draw.start, draw.target, draw.speed)]

\* an ACTIVE block that deactivates the comet without hiding it
CometActiveStepStaysVisible(c) ==
    LET p == CometAdvance(c.position, c.velocity)
    IN  [c EXCEPT !.position = p, !.active = ~LongerThan(p, cometBound)]

\* if (comet.active) { ... }: the state of the comet after the ACTIVE block
CometActiveStep(c) ==
    LET p == CometAdvance(c.position, c.velocity)
        out == LongerThan(p, cometBound)
    IN  [c EXCEPT !.position = p,
                  !.active = ~out,
                  !.meshVisible = IF out THEN FALSE ELSE c.meshVisible,
                  !.tailVisible = IF out THEN FALSE ELSE c.tailVisible]

\* animate, "Update Comet": spawn is the outcome of Math.random() < 0.002
UpdateComet(spawn, draw) ==
    LET doSpawn == ~comet.active /\ spawn
        c1 == IF doSpawn THEN CometSpawn(comet, draw) ELSE comet
    IN  /\ comet' = IF c1.active THEN CometActiveStep(c1) ELSE c1
        /\ tailPositions' = IF doSpawn THEN FillTail(tailPositions, c1.position)
                            ELSE tailPositions
        /\ tailPos' = IF c1.active
                      THEN TrailShift(tailPos, CometAdvance(c1.position, c1.velocity))
                      ELSE tailPos

CometInit ==
    /\ comet = [active |-> FALSE, meshVisible |-> FALSE, tailVisible |-> FALSE,
                position |-> << 0, 0, 0 >>, velocity |-> << 50, 0, 20 >>]
    /\ tailPos = [i \in 1..(tailCount * 3) |-> IF i % 3 = 1 THEN tailInitX ELSE 0]
    /\ tailPositions = [i \in 1..(tailCount * 3) |-> 0]

----------------------------------------------------------------------------
(* Catalog and scene construction                                          *)

\* constants.ts: the records the model keeps (radius, distance in hundredths;
\* speed in 1e-4 rad per frame before the 0.5 time scale)
PLANETS ==
    << [id |-> "sun",    radius |-> 500, distance |-> 0,    speed |-> 0],
       [id |-> "earth",  radius |-> 160, distance |-> 2200, speed |-> 100],
       [id |-> "saturn", radius |-> 300, distance |-> 6000, speed |-> 30] >>

Ids == { PLANETS[i].id : i \in 1..Len(PLANETS) }

\* PLANETS.find(p => p.id === id) finds a record
Found(id) == id \in Ids

\* PLANETS.find(p => p.id === id), for an id of the catalog
Find(id) == CHOOSE p \in { PLANETS[i] : i \in 1..Len(PLANETS) } : p.id = id

\* planet material is a MeshStandardMaterial (the sun's is a MeshBasicMaterial)
HasStandardMaterial(id) == id # "sun"

\* createOrbit returns undefined when radius <= 0
HasOrbitLine(id) == Find(id).distance > 0

AngleUnit == 10000

Pi == 31416

\* sin on [0, pi/2] by its Taylor polynomial, argument and result scaled by AngleUnit
SinQuadrant(x) ==
    LET x2 == (x * x) \div AngleUnit
        t3 == ((x * x2) \div AngleUnit) \div 6
        t5 == ((t3 * x2) \div AngleUnit) \div 20
        t7 == ((t5 * x2) \div AngleUnit) \div 42
    IN  x - t3 + t5 - t7

\* Math.sin, argument >= 0
Sin(a) ==
    LET r == a % (2 * Pi)
        h == IF r >= Pi THEN r - Pi ELSE r
        q == IF 2 * h > Pi THEN Pi - h ELSE h
    IN  IF r >= Pi THEN -SinQuadrant(q) ELSE SinQuadrant(q)

\* Math.cos
Cos(a) == Sin(a + Pi \div 2 + 2 * Pi)

\* Math.random() * Math.PI * 2 at construction, one draw per planet
AngleDraws ==
    { [id \in Ids |-> CASE id = "sun" -> 12345 [] id = "earth" -> 23562 [] OTHER -> 40000] }

\* mesh.position of a new THREE.Mesh or THREE.Group; the construction of the
\* planets never sets it
constructPosition == << 0, 0, 0 >>

\* the refs the mount effect sets while it builds the scene
BuiltRefs == { "rendererRef", "sceneRef", "cameraRef", "controlsRef", "planetsRef" }

\* planet.angle += planet.data.speed, without the time scale
AdvanceAngleUnscaled(p, a) == IF p.distance > 0 THEN a + p.speed ELSE a

\* animate, "Rotate planets": planet.angle += planet.data.speed * 0.5
AdvanceAngle(p, a) == IF p.distance > 0 THEN a + p.speed \div 2 ELSE a

\* a position on a circle of the planet's radius, written for every planet
OrbitPositionByRadius(p, a) ==
    << DivT(Cos(a) * p.radius, AngleUnit), 0, DivT(Sin(a) * p.radius, AngleUnit) >>

\* position.x = cos(angle) * distance; position.z = sin(angle) * distance;
\* the position of a planet at distance 0 is never written
OrbitPosition(p, a) ==
    IF p.distance > 0
    THEN << DivT(Cos(a) * p.distance, AngleUnit), 0, DivT(Sin(a) * p.distance, AngleUnit) >>
    ELSE << 0, 0, 0 >>

rotationStep == 50

moonDistance == 400

moonSpeed == 500

moonBob == 100

\* the moon placed about the origin, not about the earth
MoonPositionAboutOrigin(earthPos, a) ==
    << DivT(Cos(a) * moonDistance, AngleUnit),
       DivT(Sin(a) * moonBob, AngleUnit),
       DivT(Sin(a) * moonDistance, AngleUnit) >>

\* animate, "Update Moon": position = earthPos + (cos(angle) * distance,
\* sin(angle) * 1, sin(angle) * distance)
MoonPosition(earthPos, a) ==
    << earthPos[1] + DivT(Cos(a) * moonDistance, AngleUnit),
       earthPos[2] + DivT(Sin(a) * moonBob, AngleUnit),
       earthPos[3] + DivT(Sin(a) * moonDistance, AngleUnit) >>

----------------------------------------------------------------------------
(* GSAP: tweens on the global timeline, rendered in order on every tick    *)

\* the position of the planet's mesh as the target of the scale tweens
BodyPosition(id) == << "position", id >>

Scale(id) == << "scale", id >>

Emissive(id) == << "emissiveIntensity", id >>

Opacity(id) == << "opacity", id >>

camPos == << "position", "camera" >>

camTarget == << "target", "controls" >>

Targets ==
    { Scale(id) : id \in Ids }
        \cup { Emissive(id) : id \in { i \in Ids : HasStandardMaterial(i) } }
        \cup { Opacity(id) : id \in { i \in Ids : HasOrbitLine(i) } }
        \cup { camPos, camTarget }

restScale == 1000

pulseScale == 1200

restOpacity == 150

pulseOpacity == 800

settleOpacity == 300

restEmissive == 0

selectedEmissive == 500

resetTicks == 5

pulseTicks == 6

pulseRepeat == 3

emissiveTicks == 8

focusTicks == 15

resetViewTicks == 20

offsetFloor == 1000

White == "0xffffff"

Highlight == "0x60a5fa"

Vec1(v) == << v >>

Vec3(v) == << v, v, v >>

\* the eased ratio of a tween at e of d ticks, as a fraction of d^3;
\* sine.inOut is taken as the cubic 3p^2 - 2p^3, equal to it at 0, 1/2 and 1
EaseNum(ease, e, d) ==
    CASE ease = "power1.out" -> d * (d * d - (d - e) * (d - e))
      [] ease = "power2.out" -> d * d * d - (d - e) * (d - e) * (d - e)
      [] ease = "power2.inOut" ->
            IF 2 * e < d THEN 4 * e * e * e
            ELSE d * d * d - 4 * (d - e) * (d - e) * (d - e)
      [] OTHER -> 3 * e * e * d - 2 * e * e * e

EaseDen(d) == d * d * d

Interpolate(from, to, num, den) ==
    [i \in 1..Len(from) |-> from[i] + DivT((to[i] - from[i]) * num, den)]

\* gsap.to(target, {..., duration, ease}): the start values are read at the
\* first render
To(target, to, duration, ease, pass) ==
    [target |-> target, init |-> FALSE, from |-> to, to |-> to, time |-> 0,
     duration |-> duration, repeat |-> 0, yoyo |-> FALSE, ease |-> ease,
     onComplete |-> None, pass |-> pass]

\* gsap.fromTo(target, from, {..., yoyo: true, repeat}): immediateRender
FromTo(target, from, to, duration, repeat, ease, onComplete, pass) ==
    [target |-> target, init |-> TRUE, from |-> from, to |-> to, time |-> 0,
     duration |-> duration, repeat |-> repeat, yoyo |-> TRUE, ease |-> ease,
     onComplete |-> onComplete, pass |-> pass]

TweenTotal(t) == t.duration * (t.repeat + 1)

\* the time within the iteration, every iteration running forwards
TweenLocalForward(t, tt) ==
    IF tt >= TweenTotal(t) THEN t.duration ELSE tt % t.duration

\* the time within the iteration, mirrored on the odd iterations of a yoyo
TweenLocal(t, tt) ==
    LET ended == tt >= TweenTotal(t)
        iteration == IF ended THEN t.repeat ELSE tt \div t.duration
        local == IF ended THEN t.duration ELSE tt % t.duration
    IN  IF t.yoyo /\ iteration % 2 = 1 THEN t.duration - local ELSE local

TweenValue(t, from, tt) ==
    Interpolate(from, t.to, EaseNum(t.ease, TweenLocal(t, tt), t.duration),
                EaseDen(t.duration))

\* onComplete: () => { gsap.to(mat, { opacity: 0.3, duration: 0.5 }); }
SettleTween(t) == To(t.target, Vec1(settleOpacity), resetTicks, "power1.out", t.pass)

\* one tween rendered at the next tick: st is the scene so far, the tweens
\* that stay on the timeline, the tweens created by callbacks, and the log
RenderTween(t, st) ==
    LET from == IF t.init THEN t.from ELSE st.scene[t.target]
        tt == t.time + 1
        done == tt >= TweenTotal(t)
    IN  [scene |-> [st.scene EXCEPT ![t.target] = TweenValue(t, from, tt)],
         live  |-> IF done THEN st.live
                   ELSE Append(st.live, [t EXCEPT !.time = tt, !.init = TRUE, !.from = from]),
         born  |-> IF done /\ t.onComplete = "settle"
                   THEN Append(st.born, SettleTween(t)) ELSE st.born,
         log   |-> st.log \cup { [target |-> t.target, pass |-> t.pass] }]

RECURSIVE RenderAll(_, _, _)
RenderAll(tws, i, st) ==
    IF i > Len(tws) THEN st ELSE RenderAll(tws, i + 1, RenderTween(tws[i], st))

\* one tick of the GSAP ticker (0.1 s): every live tween renders, in the order
\* of the timeline; a completed tween leaves the timeline
gsapTick ==
    /\ tweens # << >>
    /\ LET st == RenderAll(tweens, 1,
                           [scene |-> scene, live |-> << >>, born |-> << >>, log |-> {}])
       IN  /\ scene' = st.scene
           /\ tweens' = st.live \o st.born
           /\ rendered' = st.log
    /\ reselected' = FALSE
    /\ clicked' = None
    /\ UNCHANGED << orbitColor, resets, cameraGoal, appVars, frameVars, orbitVars, loopVars, mountVars, viewVars,
                    cometVars >>

----------------------------------------------------------------------------
(* SolarSystem: the selection effect and Reset View                        *)

MaxEffectRuns == 3

MaxResets == 1

\* a change of selectedPlanetId the effect has not run for yet
EffectPending == selectedPlanet # effectDeps

\* a further change of the selection is within the bounds of the model; React
\* flushes the pending effect before it handles the next event
MayChangeSelection == ~EffectPending /\ effectRuns < MaxEffectRuns

\* planetsRef.current.forEach(p => { gsap.to(p.mesh.scale, ...); ... }) for one
\* planet: scale, then the emissive intensity of a MeshStandardMaterial (of the
\* mesh, or of children[0] of Saturn's group), then the orbit path's opacity
ResetTweensOf(id, pass) ==
    << To(Scale(id), Vec3(restScale), resetTicks, "power1.out", pass) >>
        \o (IF HasStandardMaterial(id)
            THEN << To(Emissive(id), Vec1(restEmissive), resetTicks, "power1.out", pass) >>
            ELSE << >>)
        \o (IF HasOrbitLine(id)
            THEN << To(Opacity(id), Vec1(restOpacity), resetTicks, "power1.out", pass) >>
            ELSE << >>)

RECURSIVE ResetTweensFrom(_, _)
ResetTweensFrom(i, pass) ==
    IF i > Len(PLANETS) THEN << >>
    ELSE ResetTweensOf(PLANETS[i].id, pass) \o ResetTweensFrom(i + 1, pass)

ResetTweens(pass) == ResetTweensFrom(1, pass)

\* an offset that ignores the radius
FocusOffsetFloorOnly(p) == offsetFloor

\* const offset = Math.max(radius * 4, 10)
FocusOffset(p) == IF p.radius * 4 > offsetFloor THEN p.radius * 4 ELSE offsetFloor

\* a focus target taken relative to where the camera is, not to the planet
FocusCameraTargetAccumulating(id) ==
    LET off == FocusOffset(Find(id))
    IN  VecAdd(scene[camPos], << off, off \div 2, off >>)

\* a focus target as high above the planet as it is beside it
FocusCameraTargetLevel(id) ==
    LET off == FocusOffset(Find(id))
    IN  << position[id][1] + off, position[id][2] + off, position[id][3] + off >>

\* the camera position the focus transition on id animates to
FocusCameraTarget(id) ==
    LET off == FocusOffset(Find(id))
    IN  << position[id][1] + off, position[id][2] + off \div 2, position[id][3] + off >>

\* the tweens the effect starts for the selected planet, in the order of the code
FocusTweens(id, pass) ==
    << To(camTarget, position[id], focusTicks, "power2.inOut", pass),
       To(camPos, FocusCameraTarget(id), focusTicks, "power2.inOut", pass),
       FromTo(Scale(id), Vec3(restScale), Vec3(pulseScale), pulseTicks, pulseRepeat,
              "sine.inOut", None, pass) >>
        \o (IF id # "sun"
            THEN << To(Emissive(id), Vec1(selectedEmissive), emissiveTicks, "power2.out", pass) >>
            ELSE << >>)
        \o (IF HasOrbitLine(id)
            THEN << FromTo(Opacity(id), Vec1(restOpacity), Vec1(pulseOpacity), pulseTicks,
                           pulseRepeat, "sine.inOut", "settle", pass) >>
            ELSE << >>)

\* the values gsap.fromTo writes at once (immediateRender)
FocusImmediate(sc, id) ==
    LET s1 == [sc EXCEPT ![Scale(id)] = Vec3(restScale)]
    IN  IF HasOrbitLine(id) THEN [s1 EXCEPT ![Opacity(id)] = Vec1(restOpacity)] ELSE s1

\* orbit colours that gain the highlight of the selection and keep the rest
OrbitColorsAdding(colors, selected) ==
    [id \in DOMAIN colors |-> IF id = selected THEN Highlight ELSE colors[id]]

\* mat.color.setHex(0xffffff) for every orbit path, then
\* mat.color.setHex(0x60a5fa) for the orbit path of the selected planet
OrbitColorsFor(colors, selected) ==
    [id \in DOMAIN colors |-> IF id = selected THEN Highlight ELSE White]

\* useEffect(() => { if (!cameraRef.current || !controlsRef.current) return;
\* ... }, [selectedPlanetId])
SelectionEffect ==
    /\ EffectPending
    /\ effectDeps' = selectedPlanet
    /\ effectRuns' = effectRuns + 1
    /\ reselected' = FALSE
    /\ clicked' = None
    /\ IF ~({ "cameraRef", "controlsRef" } \subseteq refs)
       THEN UNCHANGED << tweens, scene, orbitColor, cameraGoal >>
       ELSE IF selectedPlanet = None \/ selectedPlanet \notin Ids
       THEN /\ tweens' = tweens \o ResetTweens(effectRuns + 1)
            /\ scene' = scene
            /\ orbitColor' = OrbitColorsFor(orbitColor, None)
            /\ UNCHANGED cameraGoal
       ELSE /\ tweens' = tweens \o ResetTweens(effectRuns + 1)
                                \o FocusTweens(selectedPlanet, effectRuns + 1)
            /\ scene' = FocusImmediate(scene, selectedPlanet)
            /\ orbitColor' = OrbitColorsFor(orbitColor, selectedPlanet)
            /\ cameraGoal' = [position |-> FocusCameraTarget(selectedPlanet),
                              target |-> position[selectedPlanet]]
    /\ rendered' = {}
    /\ UNCHANGED << selectedPlanet, showIntro, resets, frameVars, orbitVars, loopVars,
                    mountVars, viewVars, cometVars >>

resetViewPosition == << 0, 8000, 16000 >>

\* a Reset View that also drops the selection
handleResetCameraDeselecting ==
    /\ { "cameraRef", "controlsRef" } \subseteq refs
    /\ resets < MaxResets
    /\ resets' = resets + 1
    /\ cameraGoal' = [position |-> resetViewPosition, target |-> << 0, 0, 0 >>]
    /\ tweens' = tweens \o
            << To(camPos, resetViewPosition, resetViewTicks, "power2.inOut", 0),
               To(camTarget, << 0, 0, 0 >>, resetViewTicks, "power2.inOut", 0) >>
    /\ reselected' = FALSE
    /\ clicked' = None
    /\ selectedPlanet' = None
    /\ UNCHANGED << scene, orbitColor, rendered, showIntro, effectDeps, effectRuns,
                    frameVars, orbitVars, loopVars, mountVars, viewVars, cometVars >>

\* handleResetCamera
handleResetCamera ==
    /\ { "cameraRef", "controlsRef" } \subseteq refs
    /\ resets < MaxResets
    /\ resets' = resets + 1
    /\ cameraGoal' = [position |-> resetViewPosition, target |-> << 0, 0, 0 >>]
    /\ tweens' = tweens \o
            << To(camPos, resetViewPosition, resetViewTicks, "power2.inOut", 0),
               To(camTarget, << 0, 0, 0 >>, resetViewTicks, "power2.inOut", 0) >>
    /\ reselected' = FALSE
    /\ clicked' = None
    /\ UNCHANGED << scene, orbitColor, rendered, appVars, frameVars, orbitVars, loopVars,
                    mountVars, viewVars, cometVars >>

----------------------------------------------------------------------------
(* App: the selection state                                                *)

\* a selection handler that makes a pass of the selection effect due on every
\* call, the selected planet included
handlePlanetSelectRestarting(planet) ==
    /\ MayChangeSelection
    /\ selectedPlanet' = planet.id
    /\ showIntro' = FALSE
    /\ reselected' = (planet.id = selectedPlanet)
    /\ clicked' = planet.id
    /\ effectDeps' = IF planet.id = selectedPlanet THEN "restart" ELSE effectDeps
    /\ UNCHANGED effectRuns

\* handlePlanetSelect: setSelectedPlanet(planet); setShowIntro(false).  Setting
\* the state to the record it already holds schedules no render and no effect.
handlePlanetSelect(planet) ==
    /\ planet.id # selectedPlanet => MayChangeSelection
    /\ selectedPlanet' = planet.id
    /\ showIntro' = FALSE
    /\ reselected' = (planet.id = selectedPlanet)
    /\ clicked' = planet.id
    /\ UNCHANGED << effectDeps, effectRuns >>

\* handleCloseHUD: setSelectedPlanet(null)
handleCloseHUD ==
    /\ selectedPlanet # None => MayChangeSelection
    /\ selectedPlanet' = None
    /\ reselected' = FALSE
    /\ clicked' = None
    /\ UNCHANGED << showIntro, effectDeps, effectRuns,
                    frameVars, orbitVars, loopVars, mountVars, viewVars, gsapVars, cometVars >>

\* a pointer-down that drops the selection when it reads no hover target
onPointerDownClearing ==
    /\ "pointerdown" \in listeners
    /\ IF hoveredPlanetId # None /\ Found(hoveredPlanetId)
       THEN handlePlanetSelect(Find(hoveredPlanetId))
       ELSE /\ selectedPlanet # None => MayChangeSelection
            /\ selectedPlanet' = None
            /\ reselected' = FALSE
            /\ clicked' = IF hoveredPlanetId = None THEN Empty ELSE hoveredPlanetId
            /\ UNCHANGED << showIntro, effectDeps, effectRuns >>
    /\ UNCHANGED << frameVars, orbitVars, loopVars, mountVars, viewVars, gsapVars, cometVars >>

\* a pointer-down that selects the id it reads without looking it up
onPointerDownUnchecked ==
    /\ "pointerdown" \in listeners
    /\ IF hoveredPlanetId # None
       THEN /\ hoveredPlanetId # selectedPlanet => MayChangeSelection
            /\ selectedPlanet' = hoveredPlanetId
            /\ showIntro' = FALSE
            /\ reselected' = (hoveredPlanetId = selectedPlanet)
            /\ clicked' = hoveredPlanetId
            /\ UNCHANGED << effectDeps, effectRuns >>
       ELSE /\ reselected' = FALSE
            /\ clicked' = Empty
            /\ UNCHANGED appVars
    /\ UNCHANGED << frameVars, orbitVars, loopVars, mountVars, viewVars, gsapVars, cometVars >>

\* onPointerDown: if (hoveredPlanetIdRef.current) { found = PLANETS.find(...);
\* if (found) onPlanetSelect(found); }
onPointerDown ==
    /\ "pointerdown" \in listeners
    /\ IF hoveredPlanetId # None /\ Found(hoveredPlanetId)
       THEN handlePlanetSelect(Find(hoveredPlanetId))
       ELSE /\ reselected' = FALSE
            /\ clicked' = IF hoveredPlanetId = None THEN Empty ELSE hoveredPlanetId
            /\ UNCHANGED appVars
    /\ UNCHANGED << frameVars, orbitVars, loopVars, mountVars, viewVars, gsapVars, cometVars >>

----------------------------------------------------------------------------
(* animate: hover and labels                                               *)

Scene == "Scene"

\* the meshes raycaster.intersectObjects(planetMeshes, true) can return
HitObjects == { "sunMesh", "earthMesh", "saturnSphere", "saturnRing" }

Parent(o) ==
    CASE o \in { "saturnSphere", "saturnRing" } -> "saturnGroup"
      [] OTHER -> Scene

\* object.userData.id, None when the node carries no id
UserDataId(o) ==
    CASE o = "sunMesh" -> "sun"
      [] o = "earthMesh" -> "earth"
      [] o = "saturnGroup" -> "saturn"
      [] OTHER -> None

\* while (object.parent && object.parent.type !== 'Scene') {
\*     if (object.userData.id) break; object = object.parent; }
RECURSIVE WalkUp(_)
WalkUp(o) ==
    IF o # Scene /\ Parent(o) # Scene /\ UserDataId(o) = None THEN WalkUp(Parent(o)) ELSE o

\* newHoveredId = object.userData.id, of the intersected mesh itself
ResolveHoverOwnIdOnly(hit) == IF hit = None THEN None ELSE UserDataId(hit)

\* newHoveredId = object.userData.id || (object.parent && object.parent.userData.id);
\* hit is intersects[0].object, or None when the ray intersects nothing
ResolveHover(hit) ==
    IF hit = None THEN None
    ELSE LET o == WalkUp(hit)
         IN  IF UserDataId(o) # None THEN UserDataId(o)
             ELSE IF o # Scene THEN UserDataId(Parent(o)) ELSE None

\* the selectedPlanetId the frame callback reads: the mount effect has the
\* dependency list [], so `animate` closes over the prop of the first render,
\* which is the initial App state null
animateSelectedPlanetId == None

\* el.style.opacity of one label; isVisible is pos.project(camera).z < 1
LabelOpacity(id, isVisible, hovered) ==
    IF isVisible
    THEN (IF id = hovered \/ id = animateSelectedPlanetId THEN 1 ELSE 0)
    ELSE 0

\* a frame that shows the labels and leaves the hover ref as it was
animateHoverLabelsKeepingHover(hit, inFront) ==
    /\ hoveredPlanetId' = hoveredPlanetId
    /\ front' = inFront
    /\ labelOpacity' = [id \in Ids |-> LabelOpacity(id, inFront[id], ResolveHover(hit))]

\* animate, "Raycasting for Hover" and "Update Labels": hit and front are the
\* results of the ray cast and of the projection of every planet
animateHoverLabels(hit, inFront) ==
    /\ hoveredPlanetId' = ResolveHover(hit)
    /\ front' = inFront
    /\ labelOpacity' = [id \in Ids |-> LabelOpacity(id, inFront[id], ResolveHover(hit))]

\* raycaster.intersectObjects(planetMeshes, true) with the nearest last
RECURSIVE intersectObjectsDescending(_)
intersectObjectsDescending(hits) ==
    IF hits = {} THEN << >>
    ELSE LET far == CHOOSE h \in hits : \A g \in hits : h.distance >= g.distance
         IN  << far >> \o intersectObjectsDescending(hits \ { far })

\* raycaster.intersectObjects(planetMeshes, true): the intersections of the
\* ray, sorted by ascending distance from the camera
RECURSIVE intersectObjects(_)
intersectObjects(hits) ==
    IF hits = {} THEN << >>
    ELSE LET near == CHOOSE h \in hits : \A g \in hits : h.distance <= g.distance
         IN  << near >> \o intersectObjects(hits \ { near })

\* if (intersects.length > 0) { let object = intersects[0].object; ... }
FirstObject(intersects) == IF Len(intersects) > 0 THEN intersects[1].object ELSE None

\* animate, "Rotate planets"
RotatePlanets ==
    /\ angle' = [id \in Ids |-> AdvanceAngle(Find(id), angle[id])]
    /\ position' = [id \in Ids |-> OrbitPosition(Find(id), angle'[id])]
    /\ rotation' = [id \in Ids |-> rotation[id] + rotationStep]

\* animate, "Update Moon": earthPos is the earth's position as "Rotate
\* planets" of the same call has written it
UpdateMoon ==
    moon' = [angle |-> moon.angle + moonSpeed,
             position |-> MoonPosition(position'["earth"], moon.angle + moonSpeed)]

MaxFrames == 100

\* animate, from "Raycasting for Hover" to "Update Moon": hits are the
\* intersections of the ray through mouseRef.current with the planet meshes
\* as they stand before the planets are rotated, inFront the outcome of the
\* projection of the positions as they stand before the planets are rotated
animateScene(hits, inFront) ==
    /\ frames < MaxFrames
    /\ frames' = frames + 1
    /\ rayHits' = hits
    /\ seen' = position
    /\ animateHoverLabels(FirstObject(intersectObjects(hits)), inFront)
    /\ RotatePlanets
    /\ UpdateMoon
    /\ UNCHANGED angle0

----------------------------------------------------------------------------
(* Specifications                                                          *)

\* the state after the mount: the scene is built, animate() has run once (no
\* ray hit from the pointer's initial corner), and the selection effect has
\* run its first pass with selectedPlanetId = null
FocusInitWith(draws, hovers) ==
    /\ selectedPlanet = None
    /\ showIntro = TRUE
    /\ effectDeps = None
    /\ effectRuns = 1
    /\ reselected = FALSE
    /\ clicked = None
    /\ hoveredPlanetId \in hovers
    /\ labelOpacity = [id \in Ids |-> 0]
    /\ front = [id \in Ids |-> TRUE]
    /\ angle0 \in draws
    /\ angle = [id \in Ids |-> AdvanceAngle(Find(id), angle0[id])]
    /\ position = [id \in Ids |->
                      OrbitPosition(Find(id), AdvanceAngle(Find(id), angle0[id]))]
    /\ rotation = [id \in Ids |-> rotationStep]
    /\ moon = [angle |-> moonSpeed,
               position |->
                   MoonPosition(OrbitPosition(Find("earth"),
                                              AdvanceAngle(Find("earth"), angle0["earth"])),
                                moonSpeed)]
    /\ frames = 1
    /\ seen = [id \in Ids |-> constructPosition]
    /\ rayHits = {}
    /\ scene = [t \in Targets |->
                  CASE t = camPos -> resetViewPosition
                    [] t = camTarget -> << 0, 0, 0 >>
                    [] t[1] = "scale" -> Vec3(restScale)
                    [] t[1] = "opacity" -> Vec1(restOpacity)
                    [] OTHER -> Vec1(restEmissive)]
    /\ orbitColor = [id \in { i \in Ids : HasOrbitLine(i) } |-> White]
    /\ tweens = ResetTweens(1)
    /\ rendered = {}
    /\ resets = 0
    /\ cameraGoal = [position |-> resetViewPosition, target |-> << 0, 0, 0 >>]

FocusInit == FocusInitWith(AngleDraws, { None })

\* height / width, in thousandths
ResizedAspectInverted(width, height) == (height * 1000) \div width

\* cameraRef.current.aspect = width / height, in thousandths
ResizedAspect(width, height) == (width * 1000) \div height

\* clientWidth and clientHeight of the container when the mount effect runs
mountClientSize == << 1280, 720 >>

\* the refs, listeners and frame request the mount effect and the resize
\* effect leave behind when the container exists
MountedRefs ==
    /\ refs = BuiltRefs
    /\ listeners = { "pointermove", "pointerdown", "resize" }
    /\ animationFrameRef = TRUE
    /\ clientSize = mountClientSize
    /\ aspect = ResizedAspect(mountClientSize[1], mountClientSize[2])
    /\ rendererSize = mountClientSize

MountedInit == mountRef = TRUE /\ MountedRefs

Init == FocusInit /\ CometInit /\ MountedInit

\* the ray casts and projections the focus specification draws from: the sun
\* (no orbit path, basic material), Saturn's ring (a group with an orbit path)
\* or nothing; every planet in front of the camera
FocusHits == { "sunMesh", "saturnRing", None }

FocusFronts == { [id \in Ids |-> TRUE] }

Frame ==
    /\ animationFrameRef
    /\ \E hit \in FocusHits, inFront \in FocusFronts : animateHoverLabels(hit, inFront)
    /\ reselected' = FALSE
    /\ clicked' = None
    /\ UNCHANGED << appVars, orbitVars, loopVars, mountVars, viewVars, gsapVars, cometVars >>

Next ==
    \/ Frame
    \/ onPointerDown
    \/ handleCloseHUD
    \/ SelectionEffect
    \/ gsapTick

Spec == Init /\ [][Next]_vars

CometFrame ==
    /\ animationFrameRef
    /\ \E spawn \in BOOLEAN, draw \in SpawnDraws : UpdateComet(spawn, draw)
    /\ UNCHANGED << appVars, reselected, clicked, frameVars, orbitVars, loopVars, mountVars, viewVars,
                    gsapVars >>

SpecComet == Init /\ [][CometFrame]_vars

\* the user interface without the passage of GSAP time: every pointer and
\* button event, the frame with every outcome of the ray cast and of the
\* projection, and the selection effect
UIFrame ==
    /\ animationFrameRef
    /\ \E hit \in HitObjects \cup { None }, inFront \in [Ids -> BOOLEAN] :
          animateHoverLabels(hit, inFront)
    /\ reselected' = FALSE
    /\ clicked' = None
    /\ UNCHANGED << appVars, orbitVars, loopVars, mountVars, viewVars, gsapVars, cometVars >>

NextUI ==
    \/ UIFrame
    \/ onPointerDown
    \/ handleCloseHUD
    \/ handleResetCamera
    \/ SelectionEffect

SpecUI == Init /\ [][NextUI]_vars

\* the intersections the orbit specification draws from: nothing, one body,
\* one body in front of another, the two meshes of the Saturn group
HitDraws ==
    { {},
      { [object |-> "sunMesh", distance |-> 16000] },
      { [object |-> "sunMesh", distance |-> 17000],
        [object |-> "earthMesh", distance |-> 12000] },
      { [object |-> "sunMesh", distance |-> 15000],
        [object |-> "earthMesh", distance |-> 18000] },
      { [object |-> "saturnSphere", distance |-> 9500],
        [object |-> "saturnRing", distance |-> 9000],
        [object |-> "sunMesh", distance |-> 17100] } }

FrontDraws ==
    { [id \in Ids |-> TRUE], [id \in Ids |-> id # "saturn"] }

OrbitAngleDraws ==
    { [id \in Ids |-> CASE id = "sun" -> 12345 [] id = "earth" -> 23562 [] OTHER -> 40000],
      [id \in Ids |-> CASE id = "sun" -> 0 [] id = "earth" -> 0 [] OTHER -> 62831] }

OrbitInit == FocusInitWith(OrbitAngleDraws, { None }) /\ CometInit /\ MountedInit

OrbitFrame ==
    /\ animationFrameRef
    /\ \E hits \in HitDraws, inFront \in FrontDraws : animateScene(hits, inFront)
    /\ reselected' = FALSE
    /\ clicked' = None
    /\ UNCHANGED << appVars, mountVars, viewVars, gsapVars, cometVars >>

\* the frame loop with the planets in orbit
SpecOrbit == OrbitInit /\ [][OrbitFrame]_vars

MaxSunFrames == 3

\* the frame with the planets in orbit, the ray on the sun or on nothing
SunFrame ==
    /\ animationFrameRef
    /\ frames < MaxSunFrames
    /\ \E hit \in { {}, { [object |-> "sunMesh", distance |-> 16000] } } :
          animateScene(hit, [id \in Ids |-> TRUE])
    /\ reselected' = FALSE
    /\ clicked' = None
    /\ UNCHANGED << appVars, mountVars, viewVars, gsapVars, cometVars >>

NextSun ==
    \/ SunFrame
    \/ onPointerDown
    \/ handleCloseHUD
    \/ SelectionEffect
    \/ gsapTick

\* frames, selection changes and GSAP ticks together
SpecSun == Init /\ [][NextSun]_vars

\* the frame with the planets in orbit, the ray on the earth or on nothing
EarthFrame ==
    /\ animationFrameRef
    /\ frames < MaxSunFrames
    /\ \E hit \in { {}, { [object |-> "earthMesh", distance |-> 12000] } } :
          animateScene(hit, [id \in Ids |-> TRUE])
    /\ reselected' = FALSE
    /\ clicked' = None
    /\ UNCHANGED << appVars, mountVars, viewVars, gsapVars, cometVars >>

NextEarth ==
    \/ EarthFrame
    \/ onPointerDown
    \/ SelectionEffect
    \/ gsapTick

\* the selection of the earth while it moves on its orbit
SpecEarth == Init /\ [][NextEarth]_vars

\* ids a hover ref could hold that no record of the catalog has
StaleIds == { "pluto" }

StaleInit ==
    FocusInitWith(AngleDraws, { None, "sun" } \cup StaleIds) /\ CometInit /\ MountedInit

NextStale ==
    \/ onPointerDown
    \/ handleCloseHUD
    \/ SelectionEffect
    \/ gsapTick

\* pointer-downs on a hover ref that is drawn at the start and not recomputed
SpecStale == StaleInit /\ [][NextStale]_vars

\* if (!mountRef.current) return;
MountAbortsNever(container) == FALSE

MountAborts(container) == ~container

\* the state after a mount that returned at its guard: nothing is built, the
\* selection effect returned at its guard, the resize effect has registered
\* its listener on the window
AbortedInit ==
    /\ selectedPlanet = None
    /\ showIntro = TRUE
    /\ effectDeps = None
    /\ effectRuns = 1
    /\ reselected = FALSE
    /\ clicked = None
    /\ hoveredPlanetId = None
    /\ labelOpacity = << >>
    /\ front = << >>
    /\ angle0 = << >>
    /\ angle = << >>
    /\ position = << >>
    /\ rotation = << >>
    /\ moon = None
    /\ frames = 0
    /\ seen = << >>
    /\ rayHits = {}
    /\ scene = << >>
    /\ orbitColor = << >>
    /\ tweens = << >>
    /\ rendered = {}
    /\ resets = 0
    /\ cameraGoal = None
    /\ comet = None
    /\ tailPos = << >>
    /\ tailPositions = << >>
    /\ refs = {}
    /\ listeners = { "resize" }
    /\ animationFrameRef = FALSE
    /\ clientSize = None
    /\ aspect = None
    /\ rendererSize = None

\* the state after the mount, with or without the container
MountInit ==
    /\ mountRef \in BOOLEAN
    /\ IF MountAborts(mountRef)
       THEN AbortedInit
       ELSE FocusInit /\ CometInit /\ MountedRefs

SpecMount == MountInit /\ [][NextUI]_vars

\* the sizes the container can have when the window is resized
ClientSizes == { << 1280, 720 >>, << 800, 600 >>, << 375, 812 >>, << 1920, 1080 >> }

\* handleResize, called with the container at the given size
handleResize(size) ==
    IF mountRef /\ { "cameraRef", "rendererRef" } \subseteq refs
    THEN /\ clientSize' = size
         /\ aspect' = ResizedAspect(size[1], size[2])
         /\ rendererSize' = size
    ELSE UNCHANGED viewVars

\* a resize event of the window
windowResize ==
    /\ "resize" \in listeners
    /\ \E size \in ClientSizes : handleResize(size)
    /\ reselected' = FALSE
    /\ clicked' = None
    /\ UNCHANGED << appVars, frameVars, orbitVars, loopVars, mountVars, gsapVars, cometVars >>

NextResize ==
    \/ windowResize
    \/ UIFrame

\* resize events and frames, with or without the container
SpecResize == MountInit /\ [][NextResize]_vars

\* the frame with the ray on the sun or on nothing
CameraFrame ==
    /\ animationFrameRef
    /\ \E hit \in { "sunMesh", None } : animateHoverLabels(hit, [id \in Ids |-> TRUE])
    /\ reselected' = FALSE
    /\ clicked' = None
    /\ UNCHANGED << appVars, orbitVars, loopVars, mountVars, viewVars, gsapVars, cometVars >>

NextCamera ==
    \/ CameraFrame
    \/ onPointerDown
    \/ handleResetCamera
    \/ SelectionEffect
    \/ gsapTick

\* Reset View and the selection of the sun, with the passage of GSAP time
SpecCamera == Init /\ [][NextCamera]_vars

\* the frame with the ray on Saturn's ring or on nothing
PulseFrame ==
    /\ animationFrameRef
    /\ \E hit \in { "saturnRing", None } : animateHoverLabels(hit, [id \in Ids |-> TRUE])
    /\ reselected' = FALSE
    /\ clicked' = None
    /\ UNCHANGED << appVars, orbitVars, loopVars, mountVars, viewVars, gsapVars, cometVars >>

NextPulse ==
    \/ PulseFrame
    \/ onPointerDown
    \/ SelectionEffect
    \/ gsapTick

\* the selection of Saturn, never closed, with the passage of GSAP time
SpecPulse == Init /\ [][NextPulse]_vars

----------------------------------------------------------------------------
(* Properties of the focus controller                                      *)

\* no tween is live and no pass of the selection effect is due
Settled == tweens = << >> /\ ~EffectPending

AtRest(id) ==
    /\ scene[Scale(id)] = Vec3(restScale)
    /\ HasOrbitLine(id) => scene[Opacity(id)] = Vec1(restOpacity)

\* a pulse (a yoyo tween) or the tween its completion callback starts
IsPulse(t) == t.yoyo \/ t.to = Vec1(settleOpacity)

LiveTweens == { tweens[i] : i \in 1..Len(tweens) }

\* C1: once the selection effect has run for a deselection, no pulse of the
\* planet selected before is live any more, and when every animation has run
\* every planet is at the rest scale and every orbit path at the rest opacity.
C1_DeselectionRestores ==
    (selectedPlanet = None /\ ~EffectPending) =>
        /\ \A t \in LiveTweens : ~IsPulse(t)
        /\ tweens = << >> => \A id \in Ids : AtRest(id)

\* C2: when every animation has run after a change of the selection to another
\* planet, every planet that is not selected is at the rest scale, the rest
\* orbit opacity and zero emissive intensity.
C2_NoStuckEmphasis ==
    (Settled /\ selectedPlanet # None) =>
        \A id \in Ids \ { selectedPlanet } :
            /\ AtRest(id)
            /\ HasStandardMaterial(id) => scene[Emissive(id)] = Vec1(restEmissive)

\* C3: after the selection effect has started a focus transition, no GSAP tick
\* renders a camera tween (position or look-at target) of an earlier transition.
C3_StaleCameraTweensCancelled ==
    effectDeps # None =>
        \A r \in rendered :
            r.target \in { camPos, camTarget } => r.pass = effectRuns

\* some tween the latest pass of the effect started is still live
TransitionInFlight == \E t \in LiveTweens : t.pass = effectRuns

\* C4 (as stated): a pointer-down that selects the planet already selected,
\* while its transition is in flight, restarts the transition: a pass of the
\* selection effect is due after it.
C4_ReselectRestarts ==
    (reselected /\ TransitionInFlight) => EffectPending

\* C4 (amended): a pointer-down that selects the planet already selected changes
\* neither the selection nor the dependency of the selection effect, starts no
\* tween and leaves the tweens in flight as they are.
C4_ReselectIsNoOp ==
    [][reselected' =>
          /\ UNCHANGED << selectedPlanet, effectDeps, effectRuns, tweens, scene, orbitColor >>
          /\ EffectPending' = EffectPending]_vars

C4_Witness == reselected /\ TransitionInFlight /\ ~EffectPending

\* the camera position a focus transition on id ends at: the planet's
\* position plus (offset, offset / 2, offset), offset = max(4 * radius, 10)
ExpectedCamera(id) ==
    LET r4 == 4 * Find(id).radius
        off == IF r4 > 1000 THEN r4 ELSE 1000
    IN  VecAdd(position[id], << off, off \div 2, off >>)

----------------------------------------------------------------------------
(* Properties of the labels and of the selection state                     *)

\* C6: after every frame the label of a planet is shown exactly when the
\* planet is in front of the camera and is the hover target or the planet
\* selected at that frame.
C6_LabelShownForSelection ==
    [][UIFrame =>
          \A id \in Ids :
              labelOpacity'[id] =
                  IF front'[id] /\ (id = hoveredPlanetId' \/ id = selectedPlanet')
                  THEN 1 ELSE 0]_vars

\* C10 (as stated): the selection changes only by a pointer-down whose hover
\* target is a planet of the catalog, and then to that planet.
C10_OnlyClickSelects ==
    [][selectedPlanet' # selectedPlanet =>
          /\ onPointerDown
          /\ Found(hoveredPlanetId)
          /\ selectedPlanet' = hoveredPlanetId]_vars

\* C10 (amended): the selection changes only by a pointer-down whose hover
\* target is a planet of the catalog (to that planet) or by closing the info
\* panel (to none); no frame, pointer-down without a hover target, Reset View
\* or pass of the selection effect changes it.
C10_ClickOrCloseSelects ==
    [][selectedPlanet' # selectedPlanet =>
          \/ /\ onPointerDown
             /\ Found(hoveredPlanetId)
             /\ selectedPlanet' = hoveredPlanetId
          \/ /\ handleCloseHUD
             /\ selectedPlanet' = None]_vars

C10_Witness == selectedPlanet = None /\ effectDeps # None

----------------------------------------------------------------------------
(* Properties of the comet                                                 *)

\* the k-th position of a buffer of x, y, z triples
Entry(buf, k) == << buf[3 * k - 2], buf[3 * k - 1], buf[3 * k] >>

Dot(a, b) == a[1] * b[1] + a[2] * b[2] + a[3] * b[3]

\* the frame ran the ACTIVE block: the comet was active, or it spawned
ActiveFrame == comet.active \/ comet'.active

\* C7: at a spawn every entry of the rendered trail behind the new head is the
\* spawn start position (which the spawn writes to tailPositions).
C7_SpawnResetsTrail ==
    [][(~comet.active /\ comet'.active) =>
          \A k \in 2..tailCount : Entry(tailPos', k) = Entry(tailPositions', 1)]_vars

\* C8 (as stated): on every ACTIVE frame the distance of the comet from the
\* origin strictly increases.
C8_DistanceIncreases ==
    [][comet.active => LengthSq(comet'.position) > LengthSq(comet.position)]_vars

\* C8 (amended): on every ACTIVE frame the comet advances by its constant
\* velocity; its distance from the origin strictly increases on the frames
\* where it is not approaching the origin; it becomes inactive and hidden
\* exactly at the frame whose new position is farther than 250 from the
\* origin; and every spawned comet reaches that deactivation.
C8_OutwardUntilDeactivated ==
    /\ [][comet.active =>
             /\ comet'.position = VecAdd(comet.position, comet.velocity)
             /\ comet'.velocity = comet.velocity
             /\ Dot(comet.position, comet.velocity) >= 0 =>
                   LengthSq(comet'.position) > LengthSq(comet.position)
             /\ comet'.active = ~LongerThan(comet'.position, cometBound)
             /\ comet'.meshVisible = comet'.active
             /\ comet'.tailVisible = comet'.active]_vars
    /\ [](comet.active => <>(~comet.active))

C8_Witness ==
    /\ ~comet.active
    /\ ~comet.meshVisible
    /\ ~comet.tailVisible
    /\ LongerThan(comet.position, cometBound)

\* C9: the rendered trail always holds tailCount positions; an ACTIVE frame
\* stores the new head position in the first slot and moves every other entry
\* one slot back, dropping the last.
C9_TrailShiftsByOne ==
    /\ [](Len(tailPos) = 3 * tailCount)
    /\ [][ActiveFrame =>
             /\ Entry(tailPos', 1) = comet'.position
             /\ \A k \in 2..tailCount : Entry(tailPos', k) = Entry(tailPos, k - 1)]_vars

C9_Witness ==
    /\ comet.active
    /\ Entry(tailPos, 1) = comet.position
    /\ Entry(tailPos, 2) = VecSub(comet.position, comet.velocity)
    /\ Entry(tailPos, 3) = VecSub(VecSub(comet.position, comet.velocity), comet.velocity)
    /\ Entry(tailPos, 3) # Entry(tailPos, 2)

----------------------------------------------------------------------------
(* Properties of picking                                                   *)

\* C11 (as stated): after a pointer-down that read no hover target the
\* selection is none.
C11_EmptyClickClears == clicked = Empty => selectedPlanet = None

\* C11 (amended): a pointer-down that reads no hover target produces no
\* result: the selection, the intro flag, the pending effect, the hover ref
\* and every animation are left as they are.
C11_EmptyClickIsNoOp ==
    [][clicked' = Empty =>
          UNCHANGED << appVars, frameVars, orbitVars, loopVars, mountVars, viewVars, gsapVars,
                       cometVars >>]_vars

C11_Witness == clicked = Empty /\ selectedPlanet # None /\ ~EffectPending

\* the nodes from o up to, and without, the scene root
RECURSIVE Chain(_)
Chain(o) == IF o = Scene THEN << >> ELSE << o >> \o Chain(Parent(o))

\* the id of the nearest node of the chain of o that carries one, or None
NearestTagged(o) ==
    LET c == Chain(o)
        tagged == { i \in 1..Len(c) : UserDataId(c[i]) # None }
    IN  IF tagged = {} THEN None
        ELSE UserDataId(c[CHOOSE i \in tagged : \A j \in tagged : i <= j])

\* the mesh of the nearest intersection of the last ray cast
NearestObject ==
    (CHOOSE h \in rayHits : \A g \in rayHits : h.distance <= g.distance).object

\* C12: after a frame whose ray hit a mesh, the hover target is the id of the
\* nearest node on the chain from that mesh up to the scene root that carries
\* an id; it is an id of the catalog, and a hit on the sphere or on the ring of
\* the Saturn group gives "saturn".
C12_HitResolvesToOwner ==
    rayHits # {} =>
        /\ hoveredPlanetId = NearestTagged(NearestObject)
        /\ hoveredPlanetId \in Ids
        /\ NearestObject \in { "saturnSphere", "saturnRing" } => hoveredPlanetId = "saturn"

C12_Witness ==
    /\ rayHits # {}
    /\ NearestObject = "saturnRing"
    /\ hoveredPlanetId = "saturn"

\* C13: every frame computes the hover target anew: after the frame it is
\* the id resolved from the intersection nearest to the camera, and none
\* when the ray intersected nothing, whatever it was before the frame.
C13_HoverRecomputedEveryFrame ==
    [][frames' = frames + 1 =>
          hoveredPlanetId' =
              IF rayHits' = {} THEN None
              ELSE LET near == CHOOSE h \in rayHits' :
                                  \A g \in rayHits' : h.distance <= g.distance
                   IN  ResolveHover(near.object)]_vars

C13_Witness ==
    /\ frames > 1
    /\ Cardinality(rayHits) > 1
    /\ NearestObject = "earthMesh"
    /\ hoveredPlanetId = "earth"

----------------------------------------------------------------------------
(* The click on the star, end to end                                       *)

\* the tweens of a sequence that animate the camera position
CameraTweens(tws) == { i \in 1..Len(tws) : tws[i].target = camPos }

\* C14: with nothing selected, the pointer-down on the sun selects the sun
\* and starts no tween itself; the pass of the selection effect that follows
\* starts exactly one tween of the camera position, to (20, 10, 20), and one
\* of the look-at target, to the origin; no other step starts a camera tween.
C14_ClickOnStarStartsOneTransition ==
    /\ [][(clicked' = "sun" /\ selectedPlanet = None) =>
             /\ selectedPlanet' = "sun"
             /\ EffectPending'
             /\ UNCHANGED gsapVars]_vars
    /\ [][(effectRuns' # effectRuns /\ selectedPlanet = "sun") =>
             LET born == SubSeq(tweens', Len(tweens) + 1, Len(tweens'))
             IN  /\ Cardinality(CameraTweens(born)) = 1
                 /\ \A i \in CameraTweens(born) :
                       /\ born[i].to = << 2000, 1000, 2000 >>
                       /\ born[i].duration = focusTicks
                 /\ Cardinality({ i \in 1..Len(born) :
                                    /\ born[i].target = camTarget
                                    /\ born[i].to = << 0, 0, 0 >> }) = 1]_vars
    /\ [][Cardinality(CameraTweens(tweens')) > Cardinality(CameraTweens(tweens)) =>
             effectRuns' # effectRuns]_vars

C14_Witness ==
    /\ selectedPlanet = "sun"
    /\ effectRuns = 2
    /\ ~EffectPending
    /\ Cardinality(CameraTweens(tweens)) = 1

----------------------------------------------------------------------------
(* Properties of the orbits                                                *)

Abs(n) == IF n < 0 THEN -n ELSE n

\* v is in the orbit plane, at distance d from the origin to within 1 % of d^2
OnOrbitCircle(v, d) ==
    /\ v[2] = 0
    /\ Abs(v[1] * v[1] + v[3] * v[3] - d * d) <= (d * d) \div 100

Orbiting == { id \in Ids : Find(id).distance > 0 }

\* C15: every planet with a distance > 0 is on its orbit circle, both where
\* it stands after a frame and where the hover and label sections of that
\* frame read it.
C15_OnOrbitCircle ==
    \A id \in Orbiting :
        /\ OnOrbitCircle(position[id], Find(id).distance)
        /\ OnOrbitCircle(seen[id], Find(id).distance)

\* C16: the position of every planet with distance 0 is the origin, after
\* every frame, selection change and GSAP tick.
C16_StarStaysAtOrigin ==
    \A id \in Ids \ Orbiting : position[id] = << 0, 0, 0 >>

C16_Witness ==
    /\ frames > 1
    /\ selectedPlanet = "sun"
    /\ rendered # {}
    /\ position["sun"] = << 0, 0, 0 >>

\* C17: after N calls of the frame callback the phase angle of every planet
\* in orbit is its initial angle plus N * speed * 0.5 and never decreases, and
\* its position is (d * cos(angle), 0, d * sin(angle)); for the earth (d = 22,
\* speed 0.01) 100 calls give the initial angle plus 0.5.
C17_PhaseAfterNFrames ==
    /\ [](\A id \in Orbiting :
             /\ 2 * (angle[id] - angle0[id]) = frames * Find(id).speed
             /\ position[id] =
                   << DivT(Cos(angle[id]) * Find(id).distance, AngleUnit), 0,
                      DivT(Sin(angle[id]) * Find(id).distance, AngleUnit) >>)
    /\ [](frames = 100 => angle["earth"] = angle0["earth"] + 5000)
    /\ [][\A id \in Orbiting : angle'[id] >= angle[id]]_vars

C17_Witness ==
    /\ frames = 100
    /\ angle["earth"] = angle0["earth"] + 5000
    /\ position["earth"] # seen["earth"]

\* C20: the positions the hover and label sections of a frame read are the
\* positions the same frame's rotation of the planets produces.
C20_PickingReadsIntegratedPositions ==
    [][frames' = frames + 1 => seen' = position']_vars

----------------------------------------------------------------------------
(* Properties of the mount and of the stale click                          *)

\* C18 (as stated): with the container absent nothing is built, no event
\* listener is registered and no frame is scheduled.
C18_AbortRegistersNothing ==
    ~mountRef => (refs = {} /\ listeners = {} /\ ~animationFrameRef)

\* C18 (amended): with the container absent no ref is ever set, no planet,
\* tween or frame ever exists, no pointer listener is registered and no frame
\* is scheduled; the only listener is the window's resize listener.
C18_AbortLeavesNoScene ==
    ~mountRef =>
        /\ refs = {}
        /\ listeners \subseteq { "resize" }
        /\ ~animationFrameRef
        /\ frames = 0
        /\ position = << >>
        /\ scene = << >>
        /\ tweens = << >>
        /\ selectedPlanet = None

C18_Witness == ~mountRef /\ refs = {} /\ listeners = { "resize" }

\* C19: a pointer-down that reads a hover id no record of the catalog has
\* changes nothing: the selection callback is not called, the selection and
\* the scene stay as they are, and the frame stays scheduled.
C19_UnknownIdIsNoOp ==
    [][(clicked' \notin Ids \cup { None, Empty }) =>
          /\ UNCHANGED << appVars, frameVars, orbitVars, loopVars, mountVars, viewVars, gsapVars,
                          cometVars >>
          /\ animationFrameRef']_vars

C19_Witness ==
    /\ clicked \in StaleIds
    /\ animationFrameRef
    /\ selectedPlanet = None

----------------------------------------------------------------------------
(* Properties of the moon and of the write sets                            *)

\* C21: every frame advances the moon's angle by the moon's own speed and
\* puts the moon at the position the same frame has given the earth plus
\* (distance * cos(angle), sin(angle), distance * sin(angle)); the angle does
\* not depend on the earth's.
C21_MoonFollowsUpdatedEarth ==
    [][frames' = frames + 1 =>
          /\ moon'.angle = moon.angle + 500
          /\ moon'.angle = 500 * frames'
          /\ moon'.position =
                << position'["earth"][1] + DivT(Cos(moon'.angle) * 400, AngleUnit),
                   position'["earth"][2] + DivT(Sin(moon'.angle) * 100, AngleUnit),
                   position'["earth"][3] + DivT(Sin(moon'.angle) * 400, AngleUnit) >>]_vars

C21_Witness ==
    /\ frames > 1
    /\ position["earth"] # seen["earth"]
    /\ moon.position[2] # 0
    /\ moon.position # MoonPosition(seen["earth"], moon.angle)
    /\ moon.position # MoonPosition(<< 0, 0, 0 >>, moon.angle)

\* the fields of a planet the selection animations write
EmphasisFields == { "scale", "emissiveIntensity", "opacity" }

\* C22: a frame changes no tweened property (scale, emissive intensity, orbit
\* opacity), no orbit colour and no tween; a step that is not a frame (a pass
\* of the selection effect, a GSAP tick, a pointer-down, a close) changes no
\* angle, position or rotation of a planet; and every tween on a planet is a
\* tween of its scale, emissive intensity or orbit opacity.
C22_DisjointWriteSets ==
    /\ [][/\ frames' # frames =>
                /\ UNCHANGED << scene, orbitColor, tweens >>
                /\ \A id \in Ids : rotation'[id] # rotation[id]
          /\ frames' = frames => UNCHANGED << angle, position, rotation >>]_vars
    /\ [](\A t \in LiveTweens : t.target[2] \in Ids => t.target[1] \in EmphasisFields)

C22_Witness ==
    /\ frames > 1
    /\ position["earth"] # seen["earth"]
    /\ selectedPlanet = "sun"
    /\ rendered # {}
    /\ scene[Scale("sun")] # Vec3(restScale)

----------------------------------------------------------------------------
(* Properties of the camera                                                *)

\* C23: while the selection is none no step moves the camera position or the
\* look-at target, whatever transition was in flight when the selection
\* became none.
C23_DeselectionLeavesCamera ==
    [][(selectedPlanet = None /\ selectedPlanet' = None) =>
          /\ scene'[camPos] = scene[camPos]
          /\ scene'[camTarget] = scene[camTarget]]_vars

\* the tweens of a sequence that animate the camera position or the look-at
\* target
CameraOrTargetTweens(tws) ==
    { i \in 1..Len(tws) : tws[i].target \in { camPos, camTarget } }

\* C24: the pass of the selection effect for a planet starts the look-at tween
\* to the planet's position p at that pass and the camera tween to
\* p + (offset, offset / 2, offset), offset = max(4 * radius, 10); when no
\* camera tween is live any more, the camera and the look-at target are at
\* the targets of the last pass, wherever the planet has moved since.
C24_CameraTargetsAtConsumption ==
    /\ [][(effectRuns' # effectRuns /\ selectedPlanet \in Ids) =>
             LET born == SubSeq(tweens', Len(tweens) + 1, Len(tweens'))
                 p == position[selectedPlanet]
                 r4 == 4 * Find(selectedPlanet).radius
                 offset == IF r4 > 1000 THEN r4 ELSE 1000
                 goal == << p[1] + offset, p[2] + offset \div 2, p[3] + offset >>
             IN  /\ \A i \in CameraOrTargetTweens(born) :
                       born[i].to = IF born[i].target = camPos THEN goal ELSE p
                 /\ Cardinality(CameraOrTargetTweens(born)) = 2
                 /\ cameraGoal' = [position |-> goal, target |-> p]]_vars
    /\ [](CameraOrTargetTweens(tweens) = {} =>
             /\ scene[camPos] = cameraGoal.position
             /\ scene[camTarget] = cameraGoal.target)

C24_Witness ==
    /\ selectedPlanet = "earth"
    /\ CameraOrTargetTweens(tweens) = {}
    /\ scene[camTarget] = cameraGoal.target
    /\ scene[camTarget] # position["earth"]
    /\ scene[camPos] = VecAdd(cameraGoal.target, << 1000, 500, 1000 >>)

\* C28: when every animation has run, the camera and the look-at target are
\* at the end values of the camera animation started last, be it Reset View
\* or the focus transition of a selection.
C28_LastStartedCameraAnimationWins ==
    Settled =>
        /\ scene[camPos] = cameraGoal.position
        /\ scene[camTarget] = cameraGoal.target

----------------------------------------------------------------------------
(* Properties of the pulse and of the orbit colours                        *)

\* the pulses the latest pass of the selection effect has started
LatestPulses == { t \in LiveTweens : t.yoyo /\ t.pass = effectRuns }

\* C25: every pulse runs 4 half-cycles of 6 ticks (2.4 s in all) and every
\* GSAP tick advances it by one tick, so no pulse outlives 24 ticks; only the
\* orbit pulse has a completion callback, and the tween that callback starts
\* neither repeats nor has one.  The scale of the selected planet is at the
\* enlarged value after 0.6 s and 1.8 s of its pulse, at rest after 1.2 s, and
\* between the two throughout.  When every animation has run with the planet
\* still selected, its scale is 1 and its orbit path is at opacity 0.3 in the
\* highlight colour.
C25_PulseIsBounded ==
    /\ [](\A t \in LiveTweens :
             /\ t.time < TweenTotal(t)
             /\ t.yoyo => (t.duration = 6 /\ t.repeat = 3 /\ t.target[1] \in { "scale", "opacity" })
             /\ ~t.yoyo => (t.repeat = 0 /\ t.onComplete = None)
             /\ t.onComplete # None => (t.yoyo /\ t.target[1] = "opacity"))
    /\ [][gsapTick =>
             \A i \in 1..Len(tweens') :
                 tweens'[i].yoyo =>
                     \E j \in 1..Len(tweens) :
                         /\ tweens[j].target = tweens'[i].target
                         /\ tweens[j].pass = tweens'[i].pass
                         /\ tweens'[i].time = tweens[j].time + 1]_vars
    /\ [](\A t \in LatestPulses :
             t.target[1] = "scale" =>
                 /\ t.time \in { 6, 18 } => scene[t.target] = << 1200, 1200, 1200 >>
                 /\ t.time = 12 => scene[t.target] = << 1000, 1000, 1000 >>
                 /\ scene[t.target][1] >= 1000
                 /\ scene[t.target][1] <= 1200)
    /\ []((Settled /\ selectedPlanet # None) =>
             /\ scene[Scale(selectedPlanet)] = << 1000, 1000, 1000 >>
             /\ HasOrbitLine(selectedPlanet) =>
                   /\ scene[Opacity(selectedPlanet)] = << 300 >>
                   /\ orbitColor[selectedPlanet] = Highlight)

C25_Witness ==
    /\ selectedPlanet = "saturn"
    /\ effectRuns = 2
    /\ Settled
    /\ scene[Scale("saturn")] = << 1000, 1000, 1000 >>
    /\ scene[Opacity("saturn")] = << 300 >>
    /\ orbitColor["saturn"] = Highlight

----------------------------------------------------------------------------
(* The state of the comet at the frame boundaries                          *)

\* C26: after every frame the head and the tail of the comet are visible
\* exactly when the comet is active; a frame that finds the comet inactive
\* and does not spawn it changes nothing of the comet (position, velocity,
\* both trail buffers); a frame that finds it active adds the velocity to the
\* position and leaves the velocity and the spawn buffer as they are; the
\* velocity and the spawn buffer change only in a frame that takes the comet
\* from inactive to active.
C26_CometStateInvariant ==
    /\ [](comet.meshVisible = comet.active /\ comet.tailVisible = comet.active)
    /\ [][(~comet.active /\ ~comet'.active) => UNCHANGED cometVars]_vars
    /\ [][comet.active =>
             /\ comet'.position = VecAdd(comet.position, comet.velocity)
             /\ comet'.velocity = comet.velocity
             /\ tailPositions' = tailPositions]_vars
    /\ [][(comet'.velocity # comet.velocity \/ tailPositions' # tailPositions) =>
             (~comet.active /\ comet'.active)]_vars

C26_Witness ==
    /\ comet.active
    /\ comet.meshVisible
    /\ comet.tailVisible
    /\ comet.velocity # << 50, 0, 20 >>
    /\ comet.position # Entry(tailPositions, 1)
    /\ comet.position # VecAdd(Entry(tailPositions, 1), comet.velocity)

----------------------------------------------------------------------------
(* Properties of the resize handler                                        *)

\* C27: a resize event leaves the camera's aspect ratio at width / height of
\* the container and the renderer's size at (width, height) when it returns,
\* no frame changes them, so at every frame they are those of the container
\* as of the last resize; when the container, the camera or the renderer is
\* absent no step changes anything.
C27_ResizeUpdatesView ==
    /\ [][windowResize =>
             IF mountRef /\ { "cameraRef", "rendererRef" } \subseteq refs
             THEN /\ clientSize' \in ClientSizes
                  /\ aspect' = (clientSize'[1] * 1000) \div clientSize'[2]
                  /\ rendererSize' = clientSize'
             ELSE UNCHANGED << appVars, frameVars, orbitVars, loopVars, mountVars, viewVars,
                               gsapVars, cometVars >>]_vars
    /\ [][UIFrame => UNCHANGED viewVars]_vars
    /\ [](mountRef =>
             /\ aspect = (clientSize[1] * 1000) \div clientSize[2]
             /\ rendererSize = clientSize)
    /\ [][~(mountRef /\ { "cameraRef", "rendererRef" } \subseteq refs) =>
             UNCHANGED viewVars]_vars

C27_Witness ==
    /\ mountRef
    /\ clientSize = << 375, 812 >>
    /\ aspect = 461
    /\ rendererSize = << 375, 812 >>

\* C29: whenever the selection effect has run for the current selection, an
\* orbit path has the highlight colour exactly if its planet is the selected
\* one and is white otherwise; at most one orbit path is highlighted.
C29_OnlySelectedOrbitHighlighted ==
    ~EffectPending =>
        /\ \A id \in DOMAIN orbitColor :
              orbitColor[id] = IF id = selectedPlanet THEN Highlight ELSE White
        /\ Cardinality({ id \in DOMAIN orbitColor : orbitColor[id] = Highlight }) <= 1

C29_Witness ==
    /\ selectedPlanet = "sun"
    /\ effectRuns = 3
    /\ ~EffectPending
    /\ orbitColor["saturn"] = White

----------------------------------------------------------------------------
(* The pointer-down and the hover target                                   *)

\* C30: a pointer-down casts no ray and leaves the hover ref, the labels and
\* the planets as they are; it selects the planet the hover ref holds, and
\* changes nothing of the selection state when the ref holds none.  The hover
\* ref changes only in a frame, and holds what the ray cast of the last frame
\* resolved to (none at first, when no ray hit from the corner (-1, -1)).
C30_PointerDownUsesLastHover ==
    /\ [][clicked' # None =>
             /\ UNCHANGED << frameVars, orbitVars, loopVars, gsapVars >>
             /\ IF hoveredPlanetId = None
                THEN clicked' = Empty /\ UNCHANGED appVars
                ELSE /\ clicked' = hoveredPlanetId
                     /\ selectedPlanet' = hoveredPlanetId
                     /\ showIntro' = FALSE]_vars
    /\ [][hoveredPlanetId' # hoveredPlanetId => frames' = frames + 1]_vars
    /\ [](hoveredPlanetId = IF rayHits = {} THEN None ELSE NearestTagged(NearestObject))

C30_Witness ==
    /\ clicked = "sun"
    /\ selectedPlanet = "sun"
    /\ hoveredPlanetId = "sun"
    /\ frames > 1
    /\ NearestObject = "sunMesh"

\* The frame callback reschedules itself on every call, so the frame that
\* advances an active comet is eventually run; whether an inactive comet ever
\* spawns is left to Math.random().
FairSpecComet == SpecComet /\ WF_vars(comet.active /\ CometFrame)

====
